---- MODULE Spec2Model ----
(***************************************************************************)
(* uHDR recompute layer: the interactive scheduler (RequestCompute /       *)
(* RunCompute, guiQt/thread.py), the tiled engine (pCompute / pRun,        *)
(* guiQt/thread.py) and the tile split / merge of hdrCore/image.py.        *)
(*                                                                         *)
(* Threads are modelled at the granularity of the shared reads and writes  *)
(* of the Python statements: the UI thread runs requestCompute, every      *)
(* pool task runs on its own worker thread, and endCompute runs on the     *)
(* worker that calls it.                                                   *)
(***************************************************************************)
EXTENDS Integers, Sequences, FiniteSets, TLC

\* ------------------------------------------------------------------------
\* Bounds of the model
\* ------------------------------------------------------------------------
MaxReq == 3
MaxTasks == 3
\* largest image height and width of the split / merge runs
MaxDim == 4
\* largest number of tiles (nbWidth * nbHeight) of a tiled run, which runs
\* on an image 2 pixels high and MaxTiles pixels wide
MaxTiles == 4

\* process-node ids used by the requests (exposure = 0, contrast = 1)
Stages == {0, 1}
\* parameter values of a request; 0 stands for "not set" / the default
Vals == {1, 2}
NoVal == 0

VARIABLES
    \* --- RequestCompute ---------------------------------------------------
    requestDict,    \* self.requestDict: stage -> params (NoVal: key absent)
    keyOrder,       \* insertion order of the keys of requestDict
    readyToRun,     \* self.readyToRun
    waitingUpdate,  \* self.waitingUpdate
    uiPc,           \* position of the UI thread inside requestCompute
    nbTasks,        \* number of pool.start(RunCompute(self)) calls so far
    task,           \* RunCompute tasks, in dispatch order
    \* --- the shared ProcessPipe and the parent model ----------------------
    ppParams,       \* parameters held by the pipeline's process-nodes
    ppOutput,       \* parameters the pipeline's current output was computed with
    preview,        \* image last given to parent.updateImage
    nbPreview,      \* number of parent.updateImage calls
    \* --- history ----------------------------------------------------------
    reqLog          \* the requestCompute calls made so far: stage, value, and
                    \* busy: 0 when the call found readyToRun set, else the
                    \* number of tasks dispatched before the call; during: the
                    \* tasks that were between their readyToRun = False and
                    \* their readyToRun = True when the call found it False
                    \* pipe: the pipeline installed when the call was made

VARIABLES
    \* --- EditImageModel: the pipeline being edited ------------------------
    curPipe,        \* RequestCompute.processpipe (and EditImageModel.processpipe):
                    \* which pipeline it refers to; ppParams and ppOutput are
                    \* the parameters and the output of that pipeline
    stash,          \* parameters and output of the pipelines not being edited
    uiArg,          \* the processPipe argument of the setProcessPipe call in progress
    nbUi,           \* number of setProcessPipe and autoExposure calls so far
    lastSwitch,     \* the last setProcessPipe call: ok, whether it passed its test
                    \* of readyToRun; busy, whether a task was queued or running then
    uiClash         \* the UI thread has called setParameters or compute on the
                    \* pipeline being edited while a task was between its
                    \* readyToRun = False and its readyToRun = True

editVars == <<curPipe, stash, uiArg, nbUi, lastSwitch, uiClash>>

schedVars == <<requestDict, keyOrder, readyToRun, waitingUpdate, uiPc, nbTasks,
               task, ppParams, ppOutput, preview, nbPreview, reqLog, editVars>>

VARIABLES
    \* --- Image.split / Image.merge run on one image ------------------------
    sImg,           \* the image split() is called on
    sCols,          \* widthSegment
    sRows,          \* heightSegment
    sGrid,          \* the 2D list split() returned
    sMerged,        \* the image merge() returned
    sPc             \* "input", "split", "merged" or "raised"

splitVars == <<sImg, sCols, sRows, sGrid, sMerged, sPc>>

VARIABLES
    \* --- the arguments of pCompute(...) -----------------------------------
    tNbWidth,       \* nbWidth
    tNbHeight,      \* nbHeight
    tNodes,         \* processpipe.processNodes of the caller's pipeline (names)
    tNodesIn,       \* processpipe.processNodes when pCompute(...) was called
    tProgress,      \* whether a progress callback was given
    \* --- pCompute ---------------------------------------------------------
    ctorPc,         \* position inside pCompute.__init__
    ctorNext,       \* next grid cell (line-major) the constructor submits
    nbSplits,       \* self.nbSplits
    nbDone,         \* self.nbDone
    geometryNode,   \* self.geometryNode is set
    splits,         \* self.splits[line][col]
    worker,         \* the pRun tasks, in submission order
    \* --- what the run did --------------------------------------------------
    nbMerge,        \* calls of Image.merge
    nbGeom,         \* calls of geometryNode.process.compute on a merged image
    nbTileGeom,     \* geometry stages computed inside the tiles' pipelines
    nbCallBack,     \* calls of self.callBack
    exported,       \* the result last given to self.callBack
    nbProgress,     \* calls of self.progress
    lastPercent,    \* the percentage given to the last call of self.progress
    progressSorted, \* no call of self.progress reported less than the call before
    progressExact   \* the k-th call reported int(k*100/nbSplits), for every call so far

progressVars == <<nbProgress, lastPercent, progressSorted, progressExact>>

tileVars == <<tNbWidth, tNbHeight, tNodes, tNodesIn, tProgress, ctorPc, ctorNext, nbSplits,
              nbDone, geometryNode, splits, worker, nbMerge, nbGeom, nbTileGeom,
              nbCallBack, exported, progressVars>>

VARIABLES
    \* --- cCompute / cRun ---------------------------------------------------
    cTask,          \* the cCompute constructions so far, each with its cRun task
    nbCCompute      \* number of cCompute(...) constructions

accelVars == <<cTask, nbCCompute>>

VARIABLES
    \* --- ImageGalleryModel.loadPage / RequestLoadImage / RunLoadImage -------
    fileKind,       \* for each image of the page, how reading its file behaves
    pageNb,         \* the page number given to loadPage
    lpNext,         \* the next image of the page the loop of loadPage handles
    requestsDone,   \* self.requestsDone: image index -> BOOLEAN (a dict)
    processPipes,   \* parent.processPipes: image index -> the pipeline stored
    loadTask,       \* the RunLoadImage tasks, in submission order
    nbLoadTask,     \* number of pool.start(RunLoadImage(...)) calls
    nbRetry,        \* number of requestLoad calls made by endLoadImage
    imageFilenames, \* self.imageFilenames: image index -> file name
    lpObj           \* number of loadPage calls so far, each with a
                    \* RequestLoadImage of its own; requestsDone is the dict
                    \* of the last one

loadVars == <<fileKind, pageNb, lpNext, requestsDone, processPipes, loadTask,
              nbLoadTask, nbRetry, imageFilenames, lpObj>>

VARIABLES
    \* --- AppController: HDR display and export ------------------------------
    autoResize,      \* hdrCore.processing.ProcessPipe.autoResize (a class attribute)
    nbPipes,         \* number of pipelines of the gallery
    imageToExport,   \* self.imageToExport
    imageExportDone, \* self.imageExportDone
    ctlPc,           \* position of the UI thread inside a display or export handler
    xTask,           \* the cCompute constructions of the controller, in order
    nbOps            \* number of these constructions

ctlVars == <<autoResize, nbPipes, imageToExport, imageExportDone, ctlPc, xTask, nbOps>>

vars == <<schedVars, splitVars, tileVars, accelVars, loadVars, ctlVars>>

\* the variables each part of the program leaves alone
nonSchedVars == <<splitVars, tileVars, accelVars, loadVars, ctlVars>>
nonSplitVars == <<schedVars, tileVars, accelVars, loadVars, ctlVars>>
nonTileVars == <<schedVars, splitVars, accelVars, loadVars, ctlVars>>
nonAccelVars == <<schedVars, splitVars, tileVars, loadVars, ctlVars>>
nonLoadVars == <<schedVars, splitVars, tileVars, accelVars, ctlVars>>
nonCtlVars == <<schedVars, splitVars, tileVars, accelVars, loadVars>>

TaskIds == 1..MaxTasks

\* the pipelines of the gallery that can be selected for editing
PipeIds == {1, 2}

\* a task not yet dispatched. dpipe: the pipeline that was current when it was
\* dispatched; used: the pipelines it has called setParameters, coreCcompute
\* or setOutput on; follow: the task its endCompute started (0: none); err:
\* the exception that left run()
NoTask == [pc |-> "none", pos |-> 0, itLen |-> 0, loc |-> [s \in Stages |-> NoVal],
           applied |-> [s \in Stages |-> NoVal], disp |-> 0, dpipe |-> 0, used |-> {},
           follow |-> 0, err |-> "none"]

\* ------------------------------------------------------------------------
\* RequestCompute.__init__
\* ------------------------------------------------------------------------
SchedInit ==
    /\ requestDict = [s \in Stages |-> NoVal]
    /\ keyOrder = <<>>
    /\ readyToRun = TRUE
    /\ waitingUpdate = FALSE
    /\ uiPc = "idle"
    /\ nbTasks = 0
    /\ task = [t \in TaskIds |-> NoTask]
    /\ ppParams = [s \in Stages |-> NoVal]
    /\ ppOutput = [s \in Stages |-> NoVal]
    /\ preview = [s \in Stages |-> NoVal]
    /\ nbPreview = 0
    /\ reqLog = <<>>
    /\ curPipe = 1
    /\ stash = [q \in PipeIds |-> [params |-> [s \in Stages |-> NoVal],
                                   out |-> [s \in Stages |-> NoVal]]]
    /\ uiArg = 0
    /\ nbUi = 0
    /\ lastSwitch = [ok |-> FALSE, busy |-> FALSE]
    /\ uiClash = FALSE

\* self.pool.start(RunCompute(self)): the next task of the table is queued
PoolStart(tk) ==
    [tk EXCEPT ![nbTasks + 1] = [NoTask EXCEPT !.pc = "queued", !.disp = Len(reqLog),
                                            !.dpipe = curPipe]]

\* a store that keeps the value already pending for the stage
DictStoreKeepFirst(id, p) ==
    /\ requestDict' = IF requestDict[id] = NoVal THEN [requestDict EXCEPT ![id] = p]
                      ELSE requestDict
    /\ keyOrder' = IF requestDict[id] = NoVal THEN Append(keyOrder, id) ELSE keyOrder

\* self.requestDict[id] = copy.deepcopy(params)
DictStore(id, p) ==
    /\ requestDict' = [requestDict EXCEPT ![id] = p]
    /\ keyOrder' = IF requestDict[id] = NoVal THEN Append(keyOrder, id) ELSE keyOrder

\* requestCompute, first statement (UI thread)
RequestStore(id, p) ==
    /\ uiPc = "idle"
    /\ Len(reqLog) + nbUi < MaxReq
    /\ DictStore(id, p)
    /\ reqLog' = Append(reqLog, [id |-> id, p |-> p, busy |-> 0, during |-> {},
                                 pipe |-> curPipe])
    /\ uiPc' = "stored"
    /\ UNCHANGED <<readyToRun, waitingUpdate, nbTasks, task, ppParams, ppOutput,
                   preview, nbPreview>>
    /\ UNCHANGED editVars
    /\ UNCHANGED nonSchedVars

\* an else branch that leaves the flag as it is
MarkWaitingDropped ==
    waitingUpdate' = waitingUpdate

\* the else branch of requestCompute: self.waitingUpdate = True
MarkWaiting ==
    waitingUpdate' = TRUE

\* requestCompute, the test of readyToRun and its two branches (UI thread)
RequestDecide ==
    /\ uiPc = "stored"
    /\ IF readyToRun
       THEN /\ nbTasks < MaxTasks
            /\ task' = PoolStart(task)
            /\ nbTasks' = nbTasks + 1
            /\ UNCHANGED <<waitingUpdate, reqLog>>
       ELSE /\ MarkWaiting
            /\ reqLog' = [reqLog EXCEPT
                            ![Len(reqLog)].busy = nbTasks,
                            ![Len(reqLog)].during =
                                {t \in TaskIds : task[t].pc \in {"started", "iter", "compute",
                                                                  "setOutput", "release"}}]
            /\ UNCHANGED <<nbTasks, task>>
    /\ uiPc' = "idle"
    /\ UNCHANGED <<requestDict, keyOrder, readyToRun, ppParams, ppOutput,
                   preview, nbPreview>>
    /\ UNCHANGED editVars
    /\ UNCHANGED nonSchedVars

\* ProcessPipe.setParameters(k, v): the process-node k takes the parameters v
SetParameters(params, k, v) == [params EXCEPT ![k] = v]

\* RunCompute.run: self.parent.readyToRun = False
TaskStart(t) ==
    /\ task[t].pc = "queued"
    /\ readyToRun' = FALSE
    /\ task' = [task EXCEPT ![t].pc = "started"]
    /\ UNCHANGED <<requestDict, keyOrder, waitingUpdate, uiPc, nbTasks, ppParams,
                   ppOutput, preview, nbPreview, reqLog>>
    /\ UNCHANGED editVars
    /\ UNCHANGED nonSchedVars

\* RunCompute.run: iter(self.parent.requestDict.keys())
TaskIterBegin(t) ==
    /\ task[t].pc = "started"
    /\ task' = [task EXCEPT ![t].pc = "iter", ![t].pos = 0, ![t].itLen = Len(keyOrder)]
    /\ UNCHANGED <<requestDict, keyOrder, readyToRun, waitingUpdate, uiPc, nbTasks,
                   ppParams, ppOutput, preview, nbPreview, reqLog>>
    /\ UNCHANGED editVars
    /\ UNCHANGED nonSchedVars

\* one turn of "for k in requestDict.keys(): processpipe.setParameters(k, requestDict[k])";
\* the dict iterator raises RuntimeError when the dict changed size
TaskIterNext(t) ==
    /\ task[t].pc = "iter"
    /\ IF Len(keyOrder) # task[t].itLen
       THEN /\ task' = [task EXCEPT ![t].pc = "raised", ![t].err = "RuntimeError"]
            /\ UNCHANGED ppParams
       ELSE IF task[t].pos = Len(keyOrder)
       THEN /\ task' = [task EXCEPT ![t].pc = "compute"]
            /\ UNCHANGED ppParams
       ELSE LET k == keyOrder[task[t].pos + 1] IN
            /\ ppParams' = SetParameters(ppParams, k, requestDict[k])
            /\ task' = [task EXCEPT ![t].pos = @ + 1, ![t].applied[k] = requestDict[k],
                                    ![t].used = @ \cup {curPipe}]
    /\ UNCHANGED <<requestDict, keyOrder, readyToRun, waitingUpdate, uiPc, nbTasks,
                   ppOutput, preview, nbPreview, reqLog>>
    /\ UNCHANGED editVars
    /\ UNCHANGED nonSchedVars

\* hdrCore.coreC.coreCcompute(img, processpipe): reads the pipeline's parameters
TaskCompute(t) ==
    /\ task[t].pc = "compute"
    /\ task' = [task EXCEPT ![t].pc = "setOutput", ![t].loc = ppParams,
                            ![t].used = @ \cup {curPipe}]
    /\ UNCHANGED <<requestDict, keyOrder, readyToRun, waitingUpdate, uiPc, nbTasks,
                   ppParams, ppOutput, preview, nbPreview, reqLog>>
    /\ UNCHANGED editVars
    /\ UNCHANGED nonSchedVars

\* a failure that also empties the pending dictionary
TaskRaiseForget(t) ==
    /\ task[t].pc = "compute"
    /\ task' = [task EXCEPT ![t].pc = "raised", ![t].err = "compute"]
    /\ requestDict' = [s \in Stages |-> NoVal]
    /\ UNCHANGED <<keyOrder, readyToRun, waitingUpdate, uiPc, nbTasks,
                   ppParams, ppOutput, preview, nbPreview, reqLog>>
    /\ UNCHANGED editVars
    /\ UNCHANGED nonSchedVars

\* the computation raises (no try/except in RunCompute.run)
TaskRaise(t) ==
    /\ task[t].pc = "compute"
    /\ task' = [task EXCEPT ![t].pc = "raised", ![t].err = "compute"]
    /\ UNCHANGED <<requestDict, keyOrder, readyToRun, waitingUpdate, uiPc, nbTasks,
                   ppParams, ppOutput, preview, nbPreview, reqLog>>
    /\ UNCHANGED editVars
    /\ UNCHANGED nonSchedVars

\* self.parent.processpipe.setOutput(imgRes)
TaskSetOutput(t) ==
    /\ task[t].pc = "setOutput"
    /\ ppOutput' = task[t].loc
    /\ task' = [task EXCEPT ![t].pc = "release", ![t].used = @ \cup {curPipe}]
    /\ UNCHANGED <<requestDict, keyOrder, readyToRun, waitingUpdate, uiPc, nbTasks,
                   ppParams, preview, nbPreview, reqLog>>
    /\ UNCHANGED editVars
    /\ UNCHANGED nonSchedVars

\* self.parent.readyToRun = True
TaskRelease(t) ==
    /\ task[t].pc = "release"
    /\ readyToRun' = TRUE
    /\ task' = [task EXCEPT ![t].pc = "getImage"]
    /\ UNCHANGED <<requestDict, keyOrder, waitingUpdate, uiPc, nbTasks, ppParams,
                   ppOutput, preview, nbPreview, reqLog>>
    /\ UNCHANGED editVars
    /\ UNCHANGED nonSchedVars

\* endCompute: imgTM = self.processpipe.getImage(toneMap=True)
EndGetImage(t) ==
    /\ task[t].pc = "getImage"
    /\ task' = [task EXCEPT ![t].pc = "updateImage", ![t].loc = ppOutput]
    /\ UNCHANGED <<requestDict, keyOrder, readyToRun, waitingUpdate, uiPc, nbTasks,
                   ppParams, ppOutput, preview, nbPreview, reqLog>>
    /\ UNCHANGED editVars
    /\ UNCHANGED nonSchedVars

\* endCompute: self.parent.updateImage(imgTM)
EndUpdateImage(t) ==
    /\ task[t].pc = "updateImage"
    /\ preview' = task[t].loc
    /\ nbPreview' = nbPreview + 1
    /\ task' = [task EXCEPT ![t].pc = "test"]
    /\ UNCHANGED <<requestDict, keyOrder, readyToRun, waitingUpdate, uiPc, nbTasks,
                   ppParams, ppOutput, reqLog>>
    /\ UNCHANGED editVars
    /\ UNCHANGED nonSchedVars

\* endCompute: if self.waitingUpdate: self.pool.start(RunCompute(self))
EndTest(t) ==
    /\ task[t].pc = "test"
    /\ IF waitingUpdate
       THEN /\ nbTasks < MaxTasks
            /\ task' = [PoolStart(task) EXCEPT ![t].pc = "clear", ![t].follow = nbTasks + 1]
            /\ nbTasks' = nbTasks + 1
       ELSE /\ task' = [task EXCEPT ![t].pc = "done"]
            /\ UNCHANGED nbTasks
    /\ UNCHANGED <<requestDict, keyOrder, readyToRun, waitingUpdate, uiPc, ppParams,
                   ppOutput, preview, nbPreview, reqLog>>
    /\ UNCHANGED editVars
    /\ UNCHANGED nonSchedVars

\* endCompute: self.waitingUpdate = False
EndClear(t) ==
    /\ task[t].pc = "clear"
    /\ waitingUpdate' = FALSE
    /\ task' = [task EXCEPT ![t].pc = "done"]
    /\ UNCHANGED <<requestDict, keyOrder, readyToRun, uiPc, nbTasks, ppParams,
                   ppOutput, preview, nbPreview, reqLog>>
    /\ UNCHANGED editVars
    /\ UNCHANGED nonSchedVars

\* a RunCompute task that is queued in the pool or between its
\* readyToRun = False and its readyToRun = True
Holding(t) == task[t].pc \in {"started", "iter", "compute", "setOutput", "release"}

QueuedOrRunning == \E t \in TaskIds : task[t].pc = "queued" \/ Holding(t)

\* EditImageModel.setProcessPipe(processPipe): if self.requestCompute.readyToRun
\* ... else: return False
SwitchTest(pp) ==
    /\ uiPc = "idle"
    /\ Len(reqLog) + nbUi < MaxReq
    /\ nbUi' = nbUi + 1
    /\ uiArg' = pp
    /\ lastSwitch' = [ok |-> readyToRun, busy |-> QueuedOrRunning]
    /\ uiPc' = IF readyToRun THEN "switchSet" ELSE "idle"
    /\ UNCHANGED <<requestDict, keyOrder, readyToRun, waitingUpdate, nbTasks, task,
                   ppParams, ppOutput, preview, nbPreview, reqLog>>
    /\ UNCHANGED <<curPipe, stash, uiClash>>
    /\ UNCHANGED nonSchedVars

\* setProcessPipe: self.processpipe = processPipe;
\* self.requestCompute.setProcessPipe(self.processpipe)
SwitchSet ==
    /\ uiPc = "switchSet"
    /\ curPipe' = uiArg
    /\ stash' = [stash EXCEPT ![curPipe] = [params |-> ppParams, out |-> ppOutput]]
    /\ ppParams' = IF uiArg = curPipe THEN ppParams ELSE stash[uiArg].params
    /\ ppOutput' = IF uiArg = curPipe THEN ppOutput ELSE stash[uiArg].out
    /\ uiPc' = "switchCompute"
    /\ UNCHANGED <<requestDict, keyOrder, readyToRun, waitingUpdate, nbTasks, task,
                   preview, nbPreview, reqLog>>
    /\ UNCHANGED <<uiArg, nbUi, lastSwitch, uiClash>>
    /\ UNCHANGED nonSchedVars

\* setProcessPipe: self.processpipe.compute(); return True
SwitchCompute ==
    /\ uiPc = "switchCompute"
    /\ ppOutput' = ppParams
    /\ uiClash' = (uiClash \/ \E t \in TaskIds : Holding(t))
    /\ uiPc' = "idle"
    /\ UNCHANGED <<requestDict, keyOrder, readyToRun, waitingUpdate, nbTasks, task,
                   ppParams, preview, nbPreview, reqLog>>
    /\ UNCHANGED <<curPipe, stash, uiArg, nbUi, lastSwitch>>
    /\ UNCHANGED nonSchedVars

\* EditImageModel.autoExposure: EV = exposureProcess.auto(img);
\* self.processpipe.setParameters(id, EV)
AutoExposureSet(ev) ==
    /\ uiPc = "idle"
    /\ Len(reqLog) + nbUi < MaxReq
    /\ nbUi' = nbUi + 1
    /\ ppParams' = SetParameters(ppParams, 0, ev)
    /\ uiClash' = (uiClash \/ \E t \in TaskIds : Holding(t))
    /\ uiPc' = "autoCompute"
    /\ UNCHANGED <<requestDict, keyOrder, readyToRun, waitingUpdate, nbTasks, task,
                   ppOutput, preview, nbPreview, reqLog>>
    /\ UNCHANGED <<curPipe, stash, uiArg, lastSwitch>>
    /\ UNCHANGED nonSchedVars

\* autoExposure: self.processpipe.compute(); return self.processpipe.getImage()
AutoExposureCompute ==
    /\ uiPc = "autoCompute"
    /\ ppOutput' = ppParams
    /\ uiClash' = (uiClash \/ \E t \in TaskIds : Holding(t))
    /\ uiPc' = "idle"
    /\ UNCHANGED <<requestDict, keyOrder, readyToRun, waitingUpdate, nbTasks, task,
                   ppParams, preview, nbPreview, reqLog>>
    /\ UNCHANGED <<curPipe, stash, uiArg, nbUi, lastSwitch>>
    /\ UNCHANGED nonSchedVars

SchedNext ==
    \/ \E id \in Stages, p \in Vals : RequestStore(id, p)
    \/ RequestDecide
    \/ \E t \in TaskIds : TaskStart(t)
    \/ \E t \in TaskIds : TaskIterBegin(t)
    \/ \E t \in TaskIds : TaskIterNext(t)
    \/ \E t \in TaskIds : TaskCompute(t)
    \/ \E t \in TaskIds : TaskRaise(t)
    \/ \E t \in TaskIds : TaskSetOutput(t)
    \/ \E t \in TaskIds : TaskRelease(t)
    \/ \E t \in TaskIds : EndGetImage(t)
    \/ \E t \in TaskIds : EndUpdateImage(t)
    \/ \E t \in TaskIds : EndTest(t)
    \/ \E t \in TaskIds : EndClear(t)

\* the editing session: the scheduler, image selection and auto-exposure
EditNext ==
    \/ SchedNext
    \/ \E pp \in PipeIds : SwitchTest(pp)
    \/ SwitchSet
    \/ SwitchCompute
    \/ \E ev \in Vals : AutoExposureSet(ev)
    \/ AutoExposureCompute

\* ------------------------------------------------------------------------
\* hdrCore.image: Image.split and Image.merge
\* ------------------------------------------------------------------------
\* An image is its colorData: [h, w, px], the height, the width and the pixel
\* at each <<row, column>>, both counted from 1. Pixel 0 is the zero of np.zeros.
EmptyImage == [h |-> 0, w |-> 0, px |-> [q \in {} |-> 0]]

\* a test image whose pixels are all different and none is 0
TestImage(h, w) ==
    [h |-> h, w |-> w, px |-> [q \in (1..h) \X (1..w) |-> (q[1] - 1) * w + q[2]]]

\* colorData[y0:y1, x0:x1, :] for 0 <= y0, y1 <= h and 0 <= x0, x1 <= w
Slice(img, y0, y1, x0, x1) ==
    LET sh == IF y1 > y0 THEN y1 - y0 ELSE 0
        sw == IF x1 > x0 THEN x1 - x0 ELSE 0
    IN  [h |-> sh, w |-> sw,
         px |-> [q \in (1..sh) \X (1..sw) |-> img.px[<<y0 + q[1], x0 + q[2]>>]]]

\* widthLimit = [(i*(imageWidth//widthSegment)) for i in range(widthSegment)]+[imageWidth]
WidthLimit(imageWidth, widthSegment) ==
    [i \in 1..(widthSegment + 1) |->
        IF i <= widthSegment THEN (i - 1) * (imageWidth \div widthSegment)
        ELSE imageWidth]

\* heightLimit = [(i*(imageHeight//heightSegment)) for i in range(widthSegment)]+[imageHeight]
HeightLimit(imageHeight, widthSegment, heightSegment) ==
    [i \in 1..(widthSegment + 1) |->
        IF i <= widthSegment THEN (i - 1) * (imageHeight \div heightSegment)
        ELSE imageHeight]

\* split() raises IndexError: the loop over range(heightSegment) reads
\* heightLimit[line+1] past the end of the list
SplitRaises(img, widthSegment, heightSegment) ==
    \E line \in 0..(heightSegment - 1) :
        line + 2 > Len(HeightLimit(img.h, widthSegment, heightSegment))

\* Image.split(widthSegment, heightSegment) when it does not raise: res[line][col]
Split(img, widthSegment, heightSegment) ==
    LET widthLimit == WidthLimit(img.w, widthSegment)
        heightLimit == HeightLimit(img.h, widthSegment, heightSegment)
    IN  [line \in 1..heightSegment |->
            [col \in 1..widthSegment |->
                Slice(img, heightLimit[line], heightLimit[line + 1],
                           widthLimit[col], widthLimit[col + 1])]]

RECURSIVE SumTo(_, _)
\* f[1] + ... + f[n]
SumTo(f, n) == IF n = 0 THEN 0 ELSE f[n] + SumTo(f, n - 1)

\* merge(): totalWidth, from the first line of the grid
MergeWidth(imgList) ==
    SumTo([c \in 1..Len(imgList[1]) |-> imgList[1][c].w], Len(imgList[1]))

\* merge(): totalHeight, from the first image of every line
MergeHeight(imgList) ==
    SumTo([l \in 1..Len(imgList) |-> imgList[l][1].h], Len(imgList))

\* merge(): y when line l is placed (each line advances y by its last image's height)
MergeY(imgList, l) ==
    SumTo([k \in 1..Len(imgList) |-> imgList[k][Len(imgList[k])].h], l - 1)

\* merge(): x when image c of line l is placed
MergeX(imgList, l, c) ==
    SumTo([k \in 1..Len(imgList[l]) |-> imgList[l][k].w], c - 1)

\* merge() raises ValueError: an image does not fit the region it is assigned to
MergeRaises(imgList) ==
    \E l \in 1..Len(imgList) : \E c \in 1..Len(imgList[l]) :
        /\ imgList[l][c].h > 0 /\ imgList[l][c].w > 0
        /\ \/ MergeY(imgList, l) + imgList[l][c].h > MergeHeight(imgList)
           \/ MergeX(imgList, l, c) + imgList[l][c].w > MergeWidth(imgList)

\* Image.merge(imgList) when it does not raise: cData starts as zeros and
\* the images are copied into it line by line, left to right
Merge(imgList) ==
    LET covers(l, c, y, x) ==
            /\ MergeY(imgList, l) < y /\ y <= MergeY(imgList, l) + imgList[l][c].h
            /\ MergeX(imgList, l, c) < x /\ x <= MergeX(imgList, l, c) + imgList[l][c].w
        cells(y, x) ==
            {lc \in (1..Len(imgList)) \X (1..Len(imgList[1])) : covers(lc[1], lc[2], y, x)}
        later(a, b) == a[1] > b[1] \/ (a[1] = b[1] /\ a[2] >= b[2])
        last(S) == CHOOSE a \in S : \A b \in S : later(a, b)
        at(y, x) ==
            IF cells(y, x) = {} THEN 0
            ELSE LET lc == last(cells(y, x))
                 IN  imgList[lc[1]][lc[2]].px[<<y - MergeY(imgList, lc[1]),
                                                x - MergeX(imgList, lc[1], lc[2])>>]
    IN  [h |-> MergeHeight(imgList), w |-> MergeWidth(imgList),
         px |-> [q \in (1..MergeHeight(imgList)) \X (1..MergeWidth(imgList)) |->
                    at(q[1], q[2])]]

\* --- a split followed by a merge, on every image size and grid -------------
SplitInit ==
    /\ \E h \in 1..MaxDim, w \in 1..MaxDim : sImg = TestImage(h, w)
    /\ sCols \in 1..sImg.w
    /\ sRows \in 1..sImg.h
    /\ sGrid = <<>>
    /\ sMerged = EmptyImage
    /\ sPc = "input"

\* grid = image.split(nCols, nRows)
DoSplit ==
    /\ sPc = "input"
    /\ IF SplitRaises(sImg, sCols, sRows)
       THEN sPc' = "raised" /\ UNCHANGED sGrid
       ELSE sPc' = "split" /\ sGrid' = Split(sImg, sCols, sRows)
    /\ UNCHANGED <<sImg, sCols, sRows, sMerged>>
    /\ UNCHANGED nonSplitVars

\* merged = Image.merge(grid)
DoMerge ==
    /\ sPc = "split"
    /\ IF MergeRaises(sGrid)
       THEN sPc' = "raised" /\ UNCHANGED sMerged
       ELSE sPc' = "merged" /\ sMerged' = Merge(sGrid)
    /\ UNCHANGED <<sImg, sCols, sRows, sGrid>>
    /\ UNCHANGED nonSplitVars

SplitOff ==
    /\ sImg = EmptyImage /\ sCols = 0 /\ sRows = 0
    /\ sGrid = <<>> /\ sMerged = EmptyImage /\ sPc = "off"

\* ------------------------------------------------------------------------
\* guiQt.thread: pCompute and pRun
\* ------------------------------------------------------------------------
\* stage lists of the pipelines given to pCompute
Pipelines == {<<"exposure">>, <<"exposure", "geometry">>, <<"geometry", "exposure">>}

WorkerIds == 1..MaxTiles

\* the input image of the pipeline given to pCompute
TileInput == TestImage(2, MaxTiles)

NoResult == [img |-> EmptyImage, whole |-> FALSE, geom |-> 0]

\* the pipeline object the caller gives to pCompute; the copies made by the
\* constructor are the objects 1, 2, ...
CallerPipe == 0

\* a pRun not yet created. pp: the pipeline object it holds
NoWorker == [pc |-> "none", idx |-> <<0, 0>>, nodes |-> <<>>, input |-> EmptyImage,
             tmp |-> 0, res |-> NoResult, pp |-> CallerPipe]

\* a geometry stage anywhere in the stage list
HasGeometry(nodes) == \E i \in 1..Len(nodes) : nodes[i] = "geometry"

\* isinstance(processpipe.processNodes[-1].process, hdrCore.processing.geometry)
LastIsGeometry(nodes) == Len(nodes) > 0 /\ nodes[Len(nodes)] = "geometry"

TileInit ==
    /\ tNbWidth \in 1..MaxTiles
    /\ tNbHeight \in 1..MaxTiles
    /\ tNbWidth * tNbHeight <= MaxTiles
    /\ tNodes \in Pipelines
    /\ tNodesIn = tNodes
    /\ tProgress \in BOOLEAN
    /\ ctorPc = "new"
    /\ ctorNext = 0
    /\ nbSplits = 0
    /\ nbDone = 0
    /\ geometryNode = FALSE
    /\ splits = <<>>
    /\ worker = [k \in WorkerIds |-> NoWorker]
    /\ nbMerge = 0
    /\ nbGeom = 0
    /\ nbTileGeom = 0
    /\ nbCallBack = 0
    /\ exported = NoResult
    /\ nbProgress = 0
    /\ lastPercent = 0
    /\ progressSorted = TRUE
    /\ progressExact = TRUE

TileOff ==
    /\ tNbWidth = 0 /\ tNbHeight = 0 /\ tNodes = <<>> /\ tNodesIn = <<>>
    /\ tProgress = FALSE
    /\ ctorPc = "off" /\ ctorNext = 0 /\ nbSplits = 0 /\ nbDone = 0
    /\ geometryNode = FALSE /\ splits = <<>>
    /\ worker = [k \in WorkerIds |-> NoWorker]
    /\ nbMerge = 0 /\ nbGeom = 0 /\ nbTileGeom = 0 /\ nbCallBack = 0
    /\ exported = NoResult /\ nbProgress = 0 /\ lastPercent = 0
    /\ progressSorted = TRUE /\ progressExact = TRUE

\* pCompute.__init__ up to self.splits = input.split(nbWidth, nbHeight)
CtorBegin ==
    /\ ctorPc = "new"
    /\ nbSplits' = tNbWidth * tNbHeight
    /\ nbDone' = 0
    /\ geometryNode' = LastIsGeometry(tNodes)
    /\ tNodes' = IF LastIsGeometry(tNodes) THEN SubSeq(tNodes, 1, Len(tNodes) - 1)
                 ELSE tNodes
    /\ IF SplitRaises(TileInput, tNbWidth, tNbHeight)
       THEN /\ ctorPc' = "raised"
            /\ UNCHANGED <<splits, ctorNext>>
       ELSE /\ splits' = LET g == Split(TileInput, tNbWidth, tNbHeight)
                         IN  [l \in 1..tNbHeight |->
                                [c \in 1..tNbWidth |-> [img |-> g[l][c], out |-> FALSE]]]
            /\ ctorPc' = "submit"
            /\ ctorNext' = 1
    /\ UNCHANGED <<tNbWidth, tNbHeight, tNodesIn, tProgress, worker, nbMerge, nbGeom, nbTileGeom,
                   nbCallBack, exported>>
    /\ UNCHANGED progressVars
    /\ UNCHANGED nonTileVars

\* a reference to the object itself instead of a copy
SameObject(obj, fresh) == obj

\* copy.deepcopy(obj): a new object, distinct from obj and from every earlier one
DeepCopy(obj, fresh) == fresh

\* one turn of the two loops of pCompute.__init__: pp = copy.deepcopy(processpipe);
\* pp.setImage(split); self.pool.start(pRun(self, pp, toneMap, idxX, idxY))
CtorSubmit ==
    /\ ctorPc = "submit"
    /\ LET idxY == ((ctorNext - 1) \div tNbWidth) + 1
           idxX == ((ctorNext - 1) % tNbWidth) + 1
       IN  worker' = [worker EXCEPT ![ctorNext] =
                        [NoWorker EXCEPT !.pc = "queued",
                                         !.idx = <<idxX, idxY>>,
                                         !.nodes = tNodes,
                                         !.pp = DeepCopy(CallerPipe, ctorNext),
                                         !.input = splits[idxY][idxX].img]]
    /\ ctorNext' = ctorNext + 1
    /\ ctorPc' = IF ctorNext = nbSplits THEN "constructed" ELSE "submit"
    /\ UNCHANGED <<tNbWidth, tNbHeight, tNodes, tNodesIn, tProgress, nbSplits, nbDone,
                   geometryNode, splits, nbMerge, nbGeom, nbTileGeom, nbCallBack,
                   exported>>
    /\ UNCHANGED progressVars
    /\ UNCHANGED nonTileVars

\* the number of geometry stages in a stage list
RECURSIVE CountGeometry(_)
CountGeometry(nodes) ==
    IF nodes = <<>> THEN 0
    ELSE (IF Head(nodes) = "geometry" THEN 1 ELSE 0) + CountGeometry(Tail(nodes))

\* a write into the transposed cell
WriteSplitTransposed(idx, idy, split) ==
    [splits EXCEPT ![idx][idy] = [img |-> split, out |-> TRUE]]

\* endCompute(idx, idy, split): self.splits[idy][idx] = copy.deepcopy(split)
WriteSplit(idx, idy, split) ==
    [splits EXCEPT ![idy][idx] = [img |-> split, out |-> TRUE]]

\* processpipe.compute(); processpipe.getImage(toneMap): the stages of the
\* tile pipelines leave the pixels as they are (the identity pipeline)
TileCompute(nodes, img) == img

\* pRun.run on its own pipeline copy, then the first statement of endCompute
TileRun(k) ==
    /\ worker[k].pc = "queued"
    /\ nbTileGeom' = nbTileGeom + CountGeometry(worker[k].nodes)
    /\ splits' = WriteSplit(worker[k].idx[1], worker[k].idx[2],
                            TileCompute(worker[k].nodes, worker[k].input))
    /\ worker' = [worker EXCEPT ![k].pc = "load", ![k].input = EmptyImage]
    /\ UNCHANGED <<tNbWidth, tNbHeight, tNodes, tNodesIn, tProgress, ctorPc, ctorNext, nbSplits,
                   nbDone, geometryNode, nbMerge, nbGeom, nbCallBack, exported>>
    /\ UNCHANGED progressVars
    /\ UNCHANGED nonTileVars

\* the tile's pipeline computation raises (no try/except in pRun.run)
TileRaise(k) ==
    /\ worker[k].pc = "queued"
    /\ worker' = [worker EXCEPT ![k].pc = "raised"]
    /\ UNCHANGED <<tNbWidth, tNbHeight, tNodes, tNodesIn, tProgress, ctorPc, ctorNext, nbSplits,
                   nbDone, geometryNode, splits, nbMerge, nbGeom, nbTileGeom,
                   nbCallBack, exported>>
    /\ UNCHANGED progressVars
    /\ UNCHANGED nonTileVars

\* self.nbDone += 1, the read
TileIncLoad(k) ==
    /\ worker[k].pc = "load"
    /\ worker' = [worker EXCEPT ![k].pc = "store", ![k].tmp = nbDone]
    /\ UNCHANGED <<tNbWidth, tNbHeight, tNodes, tNodesIn, tProgress, ctorPc, ctorNext, nbSplits,
                   nbDone, geometryNode, splits, nbMerge, nbGeom, nbTileGeom,
                   nbCallBack, exported>>
    /\ UNCHANGED progressVars
    /\ UNCHANGED nonTileVars

\* self.nbDone += 1, the write
TileIncStore(k) ==
    /\ worker[k].pc = "store"
    /\ nbDone' = worker[k].tmp + 1
    /\ worker' = [worker EXCEPT ![k].pc = IF tProgress THEN "progress" ELSE "test"]
    /\ UNCHANGED <<tNbWidth, tNbHeight, tNodes, tNodesIn, tProgress, ctorPc, ctorNext, nbSplits,
                   geometryNode, splits, nbMerge, nbGeom, nbTileGeom, nbCallBack,
                   exported>>
    /\ UNCHANGED progressVars
    /\ UNCHANGED nonTileVars

\* percent = str(int(self.nbDone*100/self.nbSplits))+'%'; self.progress(...)
TileProgress(k) ==
    /\ worker[k].pc = "progress"
    /\ LET percent == (nbDone * 100) \div nbSplits IN
        /\ nbProgress' = nbProgress + 1
        /\ lastPercent' = percent
        /\ progressSorted' = (progressSorted /\ percent >= lastPercent)
        /\ progressExact' =
              (progressExact /\ percent = ((nbProgress + 1) * 100) \div nbSplits)
    /\ worker' = [worker EXCEPT ![k].pc = "test"]
    /\ UNCHANGED <<tNbWidth, tNbHeight, tNodes, tNodesIn, tProgress, ctorPc, ctorNext, nbSplits,
                   nbDone, geometryNode, splits, nbMerge, nbGeom, nbTileGeom,
                   nbCallBack, exported>>
    /\ UNCHANGED nonTileVars

\* a barrier that opens one tile early
BarrierOffByOne == nbDone >= nbSplits - 1

\* if self.nbDone == self.nbSplits
BarrierReached == nbDone = nbSplits

\* endCompute: the test of the completion counter
TileTest(k) ==
    /\ worker[k].pc = "test"
    /\ worker' = [worker EXCEPT ![k].pc = IF BarrierReached THEN "merge" ELSE "done"]
    /\ UNCHANGED <<tNbWidth, tNbHeight, tNodes, tNodesIn, tProgress, ctorPc, ctorNext, nbSplits,
                   nbDone, geometryNode, splits, nbMerge, nbGeom, nbTileGeom,
                   nbCallBack, exported>>
    /\ UNCHANGED progressVars
    /\ UNCHANGED nonTileVars

\* the images of self.splits, as merge() reads them
SplitImages == [l \in 1..Len(splits) |-> [c \in 1..Len(splits[l]) |-> splits[l][c].img]]

\* every cell of self.splits holds a computed tile
AllCellsOut == \A l \in 1..Len(splits) : \A c \in 1..Len(splits[l]) : splits[l][c].out

\* res = hdrCore.image.Image.merge(self.splits)
TileMerge(k) ==
    /\ worker[k].pc = "merge"
    /\ nbMerge' = nbMerge + 1
    /\ IF MergeRaises(SplitImages)
       THEN worker' = [worker EXCEPT ![k].pc = "raised"]
       ELSE worker' = [worker EXCEPT
                          ![k].pc = IF geometryNode THEN "geometry" ELSE "callback",
                          ![k].res = [img |-> Merge(SplitImages), whole |-> AllCellsOut,
                                      geom |-> 0]]
    /\ UNCHANGED <<tNbWidth, tNbHeight, tNodes, tNodesIn, tProgress, ctorPc, ctorNext, nbSplits,
                   nbDone, geometryNode, splits, nbGeom, nbTileGeom, nbCallBack,
                   exported>>
    /\ UNCHANGED progressVars
    /\ UNCHANGED nonTileVars

\* res = self.geometryNode.process.compute(res, **self.geometryNode.params)
TileGeometry(k) ==
    /\ worker[k].pc = "geometry"
    /\ nbGeom' = nbGeom + 1
    /\ worker' = [worker EXCEPT ![k].pc = "callback", ![k].res.geom = @ + 1]
    /\ UNCHANGED <<tNbWidth, tNbHeight, tNodes, tNodesIn, tProgress, ctorPc, ctorNext, nbSplits,
                   nbDone, geometryNode, splits, nbMerge, nbTileGeom, nbCallBack,
                   exported>>
    /\ UNCHANGED progressVars
    /\ UNCHANGED nonTileVars

\* self.callBack(res, self.meta)
TileCallBack(k) ==
    /\ worker[k].pc = "callback"
    /\ nbCallBack' = nbCallBack + 1
    /\ exported' = worker[k].res
    /\ worker' = [worker EXCEPT ![k].pc = "done", ![k].res = NoResult]
    /\ UNCHANGED <<tNbWidth, tNbHeight, tNodes, tNodesIn, tProgress, ctorPc, ctorNext, nbSplits,
                   nbDone, geometryNode, splits, nbMerge, nbGeom, nbTileGeom>>
    /\ UNCHANGED progressVars
    /\ UNCHANGED nonTileVars

TileNext ==
    \/ CtorBegin
    \/ CtorSubmit
    \/ \E k \in WorkerIds : TileRun(k)
    \/ \E k \in WorkerIds : TileRaise(k)
    \/ \E k \in WorkerIds : TileIncLoad(k)
    \/ \E k \in WorkerIds : TileIncStore(k)
    \/ \E k \in WorkerIds : TileProgress(k)
    \/ \E k \in WorkerIds : TileTest(k)
    \/ \E k \in WorkerIds : TileMerge(k)
    \/ \E k \in WorkerIds : TileGeometry(k)
    \/ \E k \in WorkerIds : TileCallBack(k)

\* ------------------------------------------------------------------------
\* guiQt.thread: cCompute and cRun
\* ------------------------------------------------------------------------
\* largest number of cCompute constructions of a run
MaxAccel == 2

AccelIds == 1..MaxAccel

\* the pixels of an image no parameters were applied to
RawImage == NoVal

\* a cCompute not yet constructed. params: the parameters of the pipeline it
\* is given; out: the parameters that pipeline's output was computed with;
\* loc: the local image of cRun.run; starts: pool.start calls; calls: callBack
\* calls; delivered: the image given to callBack; input: the pixels of the
\* pipeline's input image; img: the object the local img of cRun.run refers
\* to; work: the pixels of the copy made by cRun.run
NoAccel == [pc |-> "none", params |-> NoVal, out |-> NoVal, loc |-> NoVal,
            starts |-> 0, calls |-> 0, delivered |-> NoVal,
            input |-> RawImage, img |-> "none", work |-> RawImage]

AccelInit ==
    /\ cTask = [j \in AccelIds |-> NoAccel]
    /\ nbCCompute = 0

\* cCompute.__init__: self.pool.start(cRun(self, processpipe, toneMap))
CCompute(p) ==
    /\ nbCCompute < MaxAccel
    /\ nbCCompute' = nbCCompute + 1
    /\ cTask' = [cTask EXCEPT ![nbCCompute + 1] =
                    [NoAccel EXCEPT !.pc = "queued", !.params = p, !.starts = 1]]
    /\ UNCHANGED nonAccelVars

\* a copy that gives back the object it was given
SameImage(obj) == obj

\* copy.deepcopy of an image: a new object
DeepCopyImage(obj) == "copy"

\* cRun.run: img = copy.deepcopy(self.processpipe.getInputImage())
CRunCopy(j) ==
    /\ cTask[j].pc = "queued"
    /\ cTask' = [cTask EXCEPT ![j].pc = "copied",
                              ![j].img = DeepCopyImage("input"),
                              ![j].work = cTask[j].input]
    /\ UNCHANGED nbCCompute
    /\ UNCHANGED nonAccelVars

\* hdrCore.coreC.coreCcompute(img, processPipe): the pixels of the object
\* img are replaced by the native result (img.colorData = ...), and img is
\* returned
CoreCcompute(tk, j) ==
    IF tk[j].img = "input"
    THEN [tk EXCEPT ![j].input = tk[j].params, ![j].loc = tk[j].params]
    ELSE [tk EXCEPT ![j].work = tk[j].params, ![j].loc = tk[j].params]

\* cRun.run: imgRes = hdrCore.coreC.coreCcompute(img, self.processpipe)
CRunCompute(j) ==
    /\ cTask[j].pc = "copied"
    /\ cTask' = [CoreCcompute(cTask, j) EXCEPT ![j].pc = "computed"]
    /\ UNCHANGED nbCCompute
    /\ UNCHANGED nonAccelVars

\* a native failure answered by the pure computation of the pipeline
CRunFallback(j) ==
    /\ cTask[j].pc = "copied"
    /\ cTask' = [cTask EXCEPT ![j].pc = "raised", ![j].out = cTask[j].params]
    /\ UNCHANGED nbCCompute
    /\ UNCHANGED nonAccelVars

\* the native computation raises (no try/except in cRun.run)
CRunRaise(j) ==
    /\ cTask[j].pc = "copied"
    /\ cTask' = [cTask EXCEPT ![j].pc = "raised"]
    /\ UNCHANGED nbCCompute
    /\ UNCHANGED nonAccelVars

\* cRun.run: self.processpipe.setOutput(imgRes)
CRunSetOutput(j) ==
    /\ cTask[j].pc = "computed"
    /\ cTask' = [cTask EXCEPT ![j].pc = "output", ![j].out = cTask[j].loc]
    /\ UNCHANGED nbCCompute
    /\ UNCHANGED nonAccelVars

\* cRun.run: pRes = self.processpipe.getImage(toneMap=self.toneMap)
CRunGetImage(j) ==
    /\ cTask[j].pc = "output"
    /\ cTask' = [cTask EXCEPT ![j].pc = "image", ![j].loc = cTask[j].out]
    /\ UNCHANGED nbCCompute
    /\ UNCHANGED nonAccelVars

\* a completion that invokes the callback twice
CallBackTwice(tk, j) ==
    [tk EXCEPT ![j].calls = @ + 2, ![j].delivered = tk[j].loc]

\* cCompute.endCompute(img): self.callBack(img)
CallBack(tk, j) ==
    [tk EXCEPT ![j].calls = @ + 1, ![j].delivered = tk[j].loc]

\* cRun.run: self.parent.endCompute(pRes)
CEndCompute(j) ==
    /\ cTask[j].pc = "image"
    /\ cTask' = [CallBack(cTask, j) EXCEPT ![j].pc = "done"]
    /\ UNCHANGED nbCCompute
    /\ UNCHANGED nonAccelVars

AccelNext ==
    \/ \E p \in Vals : CCompute(p)
    \/ \E j \in AccelIds : CRunCopy(j)
    \/ \E j \in AccelIds : CRunCompute(j)
    \/ \E j \in AccelIds : CRunRaise(j)
    \/ \E j \in AccelIds : CRunSetOutput(j)
    \/ \E j \in AccelIds : CRunGetImage(j)
    \/ \E j \in AccelIds : CEndCompute(j)

\* ------------------------------------------------------------------------
\* guiQt.thread: RequestLoadImage and RunLoadImage
\* ------------------------------------------------------------------------
\* number of images of a gallery page
MaxPage == 2
\* largest number of loads re-submitted by endLoadImage
MaxRetry == 3

\* positions of the images inside the page
PageIdx == 0..(MaxPage - 1)

\* largest number of loadPage calls of a run
MaxLoadPage == 2

LoadIds == 1..(MaxPage * MaxLoadPage + MaxRetry)

\* reading a file always succeeds, always fails with IOError or ValueError,
\* or does either
FileKinds == {"good", "bad", "flaky"}

\* self.imageFilenames[i]
ImageFilename(i) == <<"image", i>>

\* no pipeline stored at an index (processPipes holds None)
NoPipe == <<>>

\* a file name of the directory chosen next
OtherFilename(i) == <<"other", i>>

\* owner: the loadPage call whose RequestLoadImage the task belongs to
NoLoad == [pc |-> "none", idx0 |-> 0, idx |-> 0, filename |-> NoPipe, owner |-> 0]

LoadInit ==
    /\ fileKind \in [PageIdx -> FileKinds]
    /\ pageNb \in {0, 1}
    /\ lpNext = 0
    /\ requestsDone = <<>>
    /\ processPipes = [i \in 0..(2 * MaxPage - 1) |-> NoPipe]
    /\ loadTask = [k \in LoadIds |-> NoLoad]
    /\ nbLoadTask = 0
    /\ nbRetry = 0
    /\ imageFilenames = [i \in 0..(2 * MaxPage - 1) |-> ImageFilename(i)]
    /\ lpObj = 1

LoadOff ==
    /\ fileKind = [i \in PageIdx |-> "good"]
    /\ pageNb = 0
    /\ lpNext = MaxPage
    /\ requestsDone = <<>>
    /\ processPipes = [i \in 0..(2 * MaxPage - 1) |-> NoPipe]
    /\ loadTask = [k \in LoadIds |-> NoLoad]
    /\ nbLoadTask = 0
    /\ nbRetry = 0
    /\ imageFilenames = [i \in 0..(2 * MaxPage - 1) |-> ImageFilename(i)]
    /\ lpObj = 1

\* RequestLoadImage.requestLoad(minIdxInPage, imgIdxInPage, filename) on the
\* RequestLoadImage of the loadPage call o, with tk the tasks before the call
RequestLoad(tk, o, minIdxInPage, imgIdxInPage, filename) ==
    /\ requestsDone' = IF o = lpObj
                       THEN ((minIdxInPage + imgIdxInPage) :> FALSE) @@ requestsDone
                       ELSE requestsDone
    /\ loadTask' = [tk EXCEPT ![nbLoadTask + 1] =
                       [pc |-> "queued", idx0 |-> minIdxInPage, idx |-> imgIdxInPage,
                        filename |-> filename, owner |-> o]]
    /\ nbLoadTask' = nbLoadTask + 1

\* one turn of the loop of ImageGalleryModel.loadPage(nb), for an image that
\* has no pipeline yet
LoadPage ==
    /\ lpNext < MaxPage
    /\ processPipes[pageNb * MaxPage + lpNext] = NoPipe
    /\ RequestLoad(loadTask, lpObj, pageNb * MaxPage, lpNext,
                   imageFilenames[pageNb * MaxPage + lpNext])
    /\ lpNext' = lpNext + 1
    /\ UNCHANGED <<fileKind, pageNb, processPipes, nbRetry, imageFilenames, lpObj>>
    /\ UNCHANGED nonLoadVars

\* RunLoadImage.run: the try block reads the file, builds and computes the
\* pipeline, and calls endLoadImage(False, ...)
RunLoad(k) ==
    /\ loadTask[k].pc = "queued"
    /\ fileKind[loadTask[k].idx] \in {"good", "flaky"}
    /\ loadTask' = [loadTask EXCEPT ![k].pc = "endOk"]
    /\ UNCHANGED <<fileKind, pageNb, lpNext, requestsDone, processPipes, nbLoadTask,
                   nbRetry, imageFilenames, lpObj>>
    /\ UNCHANGED nonLoadVars

\* RunLoadImage.run: except (IOError, ValueError): endLoadImage(True, ...)
RunLoadError(k) ==
    /\ loadTask[k].pc = "queued"
    /\ fileKind[loadTask[k].idx] \in {"bad", "flaky"}
    /\ loadTask' = [loadTask EXCEPT ![k].pc = "endErr"]
    /\ UNCHANGED <<fileKind, pageNb, lpNext, requestsDone, processPipes, nbLoadTask,
                   nbRetry, imageFilenames, lpObj>>
    /\ UNCHANGED nonLoadVars

\* endLoadImage, not error: self.requestsDone[idx0 + idx] = True
LoadEndDone(k) ==
    /\ loadTask[k].pc = "endOk"
    /\ requestsDone' = IF loadTask[k].owner = lpObj
                       THEN ((loadTask[k].idx0 + loadTask[k].idx) :> TRUE) @@ requestsDone
                       ELSE requestsDone
    /\ loadTask' = [loadTask EXCEPT ![k].pc = "store"]
    /\ UNCHANGED <<fileKind, pageNb, lpNext, processPipes, nbLoadTask, nbRetry,
                   imageFilenames, lpObj>>
    /\ UNCHANGED nonLoadVars

\* endLoadImage, not error: self.parent.processPipes[idx0 + idx] = processPipe;
\* view.updateImage(idx, processPipe, filename)
LoadEndStore(k) ==
    /\ loadTask[k].pc = "store"
    /\ processPipes' = [processPipes EXCEPT ![loadTask[k].idx0 + loadTask[k].idx] =
                            loadTask[k].filename]
    /\ loadTask' = [loadTask EXCEPT ![k].pc = "done"]
    /\ UNCHANGED <<fileKind, pageNb, lpNext, requestsDone, nbLoadTask, nbRetry,
                   imageFilenames, lpObj>>
    /\ UNCHANGED nonLoadVars

\* an error branch that gives up
EndLoadGiveUp(tk, o, idx0, idx, filename) ==
    /\ loadTask' = tk
    /\ UNCHANGED <<requestsDone, nbLoadTask>>

\* endLoadImage, error: self.requestLoad(idx0, idx, filename)
EndLoadError(tk, o, idx0, idx, filename) ==
    RequestLoad(tk, o, idx0, idx, filename)

\* endLoadImage(True, ...) called by the except branch of RunLoadImage.run
LoadEndRetry(k) ==
    /\ loadTask[k].pc = "endErr"
    /\ nbRetry < MaxRetry
    /\ nbRetry' = nbRetry + 1
    /\ EndLoadError([loadTask EXCEPT ![k].pc = "failed"], loadTask[k].owner,
                    loadTask[k].idx0, loadTask[k].idx, loadTask[k].filename)
    /\ UNCHANGED <<fileKind, pageNb, lpNext, processPipes, imageFilenames, lpObj>>
    /\ UNCHANGED nonLoadVars

\* one turn of the loop of ImageGalleryModel.loadPage(nb), for an image that
\* has its pipeline: self.controller.view.updateImage(i, ...)
LoadPageSkip ==
    /\ lpNext < MaxPage
    /\ processPipes[pageNb * MaxPage + lpNext] # NoPipe
    /\ lpNext' = lpNext + 1
    /\ UNCHANGED <<fileKind, pageNb, requestsDone, processPipes, loadTask, nbLoadTask,
                   nbRetry, imageFilenames, lpObj>>
    /\ UNCHANGED nonLoadVars

\* ImageGalleryModel.loadPage(nb) called again by the UI thread, up to
\* loadThreads = thread.RequestLoadImage(self)
LoadPageAgain(nb) ==
    /\ lpNext = MaxPage
    /\ lpObj < MaxLoadPage
    /\ pageNb' = nb
    /\ lpNext' = 0
    /\ lpObj' = lpObj + 1
    /\ requestsDone' = <<>>
    /\ UNCHANGED <<fileKind, processPipes, loadTask, nbLoadTask, nbRetry, imageFilenames>>
    /\ UNCHANGED nonLoadVars

\* ImageGalleryModel.setImages(filenames) with the files of another
\* directory, up to the loop of self.loadPage(0)
SetImages ==
    /\ lpNext = MaxPage
    /\ lpObj < MaxLoadPage
    /\ imageFilenames' = [i \in DOMAIN imageFilenames |-> OtherFilename(i)]
    /\ processPipes' = [i \in DOMAIN processPipes |-> NoPipe]
    /\ pageNb' = 0
    /\ lpNext' = 0
    /\ lpObj' = lpObj + 1
    /\ requestsDone' = <<>>
    /\ UNCHANGED <<fileKind, loadTask, nbLoadTask, nbRetry>>
    /\ UNCHANGED nonLoadVars

LoadNext ==
    \/ LoadPage
    \/ \E k \in LoadIds : RunLoad(k)
    \/ \E k \in LoadIds : RunLoadError(k)
    \/ \E k \in LoadIds : LoadEndDone(k)
    \/ \E k \in LoadIds : LoadEndStore(k)
    \/ \E k \in LoadIds : LoadEndRetry(k)

\* ------------------------------------------------------------------------
\* guiQt.controller: AppController, HDR display and export
\* ------------------------------------------------------------------------
\* largest number of cCompute constructions made by the controller
MaxOps == 4

\* largest number of pipelines of the gallery
MaxBatch == 2

OpIds == 1..MaxOps

\* a cCompute not yet constructed. cb: the callback it was given; idx: the
\* index of the pipeline it computes; from: the task whose callback made it
\* (0: a handler of the UI thread); tmp: the value of imageExportDone read by
\* its callback; next: the index its callback read the next pipeline at
NoOp == [pc |-> "none", cb |-> "none", idx |-> 0, from |-> 0, tmp |-> 0, next |-> 0]

CtlInit ==
    /\ autoResize = TRUE
    /\ nbPipes \in 1..MaxBatch
    /\ imageToExport = 0
    /\ imageExportDone = 0
    /\ ctlPc = "idle"
    /\ xTask = [j \in OpIds |-> NoOp]
    /\ nbOps = 0

CtlOff ==
    /\ autoResize = TRUE
    /\ nbPipes = 1
    /\ imageToExport = 0
    /\ imageExportDone = 0
    /\ ctlPc = "idle"
    /\ xTask = [j \in OpIds |-> NoOp]
    /\ nbOps = 0

\* thread.cCompute(callBack, processpipe, ...): pool.start(cRun(...))
StartOp(cb, idx, from) ==
    /\ nbOps < MaxOps
    /\ nbOps' = nbOps + 1
    /\ xTask' = [xTask EXCEPT ![nbOps + 1] =
                    [NoOp EXCEPT !.pc = "queued", !.cb = cb, !.idx = idx, !.from = from]]

\* callBackDisplayHDR up to hdrCore.processing.ProcessPipe.autoResize = False
DisplayFlag ==
    /\ ctlPc = "idle"
    /\ nbOps < MaxOps
    /\ autoResize' = FALSE
    /\ ctlPc' = "displayStart"
    /\ UNCHANGED <<nbPipes, imageToExport, imageExportDone, xTask, nbOps>>
    /\ UNCHANGED nonCtlVars

\* callBackDisplayHDR: thread.cCompute(self.callBackEndDisplay, processpipe, ...)
DisplayStart ==
    /\ ctlPc = "displayStart"
    /\ StartOp("display", 0, 0)
    /\ ctlPc' = "idle"
    /\ UNCHANGED <<autoResize, nbPipes, imageToExport, imageExportDone>>
    /\ UNCHANGED nonCtlVars

\* callBackExportHDR up to hdrCore.processing.ProcessPipe.autoResize = False
ExportFlag ==
    /\ ctlPc = "idle"
    /\ nbOps < MaxOps
    /\ autoResize' = FALSE
    /\ ctlPc' = "exportStart"
    /\ UNCHANGED <<nbPipes, imageToExport, imageExportDone, xTask, nbOps>>
    /\ UNCHANGED nonCtlVars

\* callBackExportHDR: thread.cCompute(self.callBackEndExportHDR, processpipe, ...)
ExportStart ==
    /\ ctlPc = "exportStart"
    /\ StartOp("export", 0, 0)
    /\ ctlPc' = "idle"
    /\ UNCHANGED <<autoResize, nbPipes, imageToExport, imageExportDone>>
    /\ UNCHANGED nonCtlVars

\* callBackExportAllHDR: self.imageToExport = len(self.processPipes);
\* self.imageExportDone = 0
ExportAllReset ==
    /\ ctlPc = "idle"
    /\ nbOps < MaxOps
    /\ imageToExport' = nbPipes
    /\ imageExportDone' = 0
    /\ ctlPc' = "batchFlag"
    /\ UNCHANGED <<autoResize, nbPipes, xTask, nbOps>>
    /\ UNCHANGED nonCtlVars

\* callBackExportAllHDR: hdrCore.processing.ProcessPipe.autoResize = False
ExportAllFlag ==
    /\ ctlPc = "batchFlag"
    /\ autoResize' = FALSE
    /\ ctlPc' = "batchStart"
    /\ UNCHANGED <<nbPipes, imageToExport, imageExportDone, xTask, nbOps>>
    /\ UNCHANGED nonCtlVars

\* callBackExportAllHDR: thread.cCompute(self.callBackEndAllExportHDR, ...) for
\* self.processPipes[0]
ExportAllStart ==
    /\ ctlPc = "batchStart"
    /\ StartOp("batch", 0, 0)
    /\ ctlPc' = "idle"
    /\ UNCHANGED <<autoResize, nbPipes, imageToExport, imageExportDone>>
    /\ UNCHANGED nonCtlVars

\* cRun.run up to pRes = self.processpipe.getImage(...), on the pipeline copy
\* the task was given
XRun(j) ==
    /\ xTask[j].pc = "queued"
    /\ xTask' = [xTask EXCEPT ![j].pc = "image"]
    /\ UNCHANGED <<autoResize, nbPipes, imageToExport, imageExportDone, ctlPc, nbOps>>
    /\ UNCHANGED nonCtlVars

\* cRun.run: the native computation raises
XRaise(j) ==
    /\ xTask[j].pc = "queued"
    /\ xTask' = [xTask EXCEPT ![j].pc = "raised"]
    /\ UNCHANGED <<autoResize, nbPipes, imageToExport, imageExportDone, ctlPc, nbOps>>
    /\ UNCHANGED nonCtlVars

\* callBackEndDisplay, called by cCompute.endCompute on the worker thread:
\* hdrCore.processing.ProcessPipe.autoResize = True
XEndDisplay(j) ==
    /\ xTask[j].pc = "image" /\ xTask[j].cb = "display"
    /\ autoResize' = TRUE
    /\ xTask' = [xTask EXCEPT ![j].pc = "done"]
    /\ UNCHANGED <<nbPipes, imageToExport, imageExportDone, ctlPc, nbOps>>
    /\ UNCHANGED nonCtlVars

\* callBackEndExportHDR: hdrCore.processing.ProcessPipe.autoResize = True
XEndExport(j) ==
    /\ xTask[j].pc = "image" /\ xTask[j].cb = "export"
    /\ autoResize' = TRUE
    /\ xTask' = [xTask EXCEPT ![j].pc = "done"]
    /\ UNCHANGED <<nbPipes, imageToExport, imageExportDone, ctlPc, nbOps>>
    /\ UNCHANGED nonCtlVars

\* callBackEndAllExportHDR: self.imageExportDone += 1, the read
XBatchLoad(j) ==
    /\ xTask[j].pc = "image" /\ xTask[j].cb = "batch"
    /\ xTask' = [xTask EXCEPT ![j].pc = "load", ![j].tmp = imageExportDone]
    /\ UNCHANGED <<autoResize, nbPipes, imageToExport, imageExportDone, ctlPc, nbOps>>
    /\ UNCHANGED nonCtlVars

\* callBackEndAllExportHDR: self.imageExportDone += 1, the write
XBatchStore(j) ==
    /\ xTask[j].pc = "load"
    /\ imageExportDone' = xTask[j].tmp + 1
    /\ xTask' = [xTask EXCEPT ![j].pc = "test"]
    /\ UNCHANGED <<autoResize, nbPipes, imageToExport, ctlPc, nbOps>>
    /\ UNCHANGED nonCtlVars

\* callBackEndAllExportHDR: if self.imageExportDone == self.imageToExport:
\* autoResize = True; else: pp = self.processPipes[self.imageExportDone],
\* which raises IndexError past the end of the list
XBatchTest(j) ==
    /\ xTask[j].pc = "test"
    /\ IF imageExportDone = imageToExport
       THEN /\ autoResize' = TRUE
            /\ xTask' = [xTask EXCEPT ![j].pc = "done"]
       ELSE /\ UNCHANGED autoResize
            /\ xTask' = IF imageExportDone >= nbPipes
                        THEN [xTask EXCEPT ![j].pc = "raised"]
                        ELSE [xTask EXCEPT ![j].pc = "flag", ![j].next = imageExportDone]
    /\ UNCHANGED <<nbPipes, imageToExport, imageExportDone, ctlPc, nbOps>>
    /\ UNCHANGED nonCtlVars

\* callBackEndAllExportHDR, else branch: ProcessPipe.autoResize = False
XBatchFlag(j) ==
    /\ xTask[j].pc = "flag"
    /\ autoResize' = FALSE
    /\ xTask' = [xTask EXCEPT ![j].pc = "start"]
    /\ UNCHANGED <<nbPipes, imageToExport, imageExportDone, ctlPc, nbOps>>
    /\ UNCHANGED nonCtlVars

\* callBackEndAllExportHDR, else branch:
\* thread.cCompute(self.callBackEndAllExportHDR, processpipe, ...)
XBatchStart(j) ==
    /\ xTask[j].pc = "start"
    /\ nbOps < MaxOps
    /\ nbOps' = nbOps + 1
    /\ xTask' = [xTask EXCEPT ![j].pc = "done",
                              ![nbOps + 1] = [NoOp EXCEPT !.pc = "queued", !.cb = "batch",
                                                          !.idx = xTask[j].next,
                                                          !.from = j]]
    /\ UNCHANGED <<autoResize, nbPipes, imageToExport, imageExportDone, ctlPc>>
    /\ UNCHANGED nonCtlVars

CtlNext ==
    \/ DisplayFlag
    \/ DisplayStart
    \/ ExportFlag
    \/ ExportStart
    \/ ExportAllReset
    \/ ExportAllFlag
    \/ ExportAllStart
    \/ \E j \in OpIds : XRun(j)
    \/ \E j \in OpIds : XRaise(j)
    \/ \E j \in OpIds : XEndDisplay(j)
    \/ \E j \in OpIds : XEndExport(j)
    \/ \E j \in OpIds : XBatchLoad(j)
    \/ \E j \in OpIds : XBatchStore(j)
    \/ \E j \in OpIds : XBatchTest(j)
    \/ \E j \in OpIds : XBatchFlag(j)
    \/ \E j \in OpIds : XBatchStart(j)

\* ------------------------------------------------------------------------
\* Specifications
\* ------------------------------------------------------------------------
\* the interactive scheduler
Init == SchedInit /\ SplitOff /\ TileOff /\ AccelInit /\ LoadOff /\ CtlOff

Next == SchedNext

Spec == Init /\ [][Next]_vars

\* the interactive scheduler with image selection and auto-exposure
EditSpec == Init /\ [][EditNext]_vars

\* split and merge of one image
SplitMergeInit == SplitInit /\ SchedInit /\ TileOff /\ AccelInit /\ LoadOff /\ CtlOff

SplitMergeNext ==
    \/ DoSplit
    \/ DoMerge

SplitMergeSpec == SplitMergeInit /\ [][SplitMergeNext]_vars

\* one tiled run of pCompute
TileSpecInit == TileInit /\ SchedInit /\ SplitOff /\ AccelInit /\ LoadOff /\ CtlOff

TileSpec == TileSpecInit /\ [][TileNext]_vars

\* cCompute constructions, each on a pipeline copy of its own
AccelSpecInit == AccelInit /\ SchedInit /\ SplitOff /\ TileOff /\ LoadOff /\ CtlOff

AccelSpec == AccelSpecInit /\ [][AccelNext]_vars

\* an editing session after one setProcessPipe call on an idle scheduler,
\* with cCompute constructions on pipeline copies of their own
NativeSpecInit ==
    /\ requestDict = [s \in Stages |-> NoVal]
    /\ keyOrder = <<>>
    /\ readyToRun = TRUE
    /\ waitingUpdate = FALSE
    /\ uiPc = "idle"
    /\ nbTasks = 0
    /\ task = [t \in TaskIds |-> NoTask]
    /\ ppParams = [s \in Stages |-> NoVal]
    /\ ppOutput = [s \in Stages |-> NoVal]
    /\ preview = [s \in Stages |-> NoVal]
    /\ nbPreview = 0
    /\ reqLog = <<>>
    /\ curPipe = 1
    /\ stash = [q \in PipeIds |-> [params |-> [s \in Stages |-> NoVal],
                                   out |-> [s \in Stages |-> NoVal]]]
    /\ uiArg = 1
    /\ nbUi = 1
    /\ lastSwitch = [ok |-> TRUE, busy |-> FALSE]
    /\ uiClash = FALSE
    /\ SplitOff /\ TileOff /\ AccelInit /\ LoadOff /\ CtlOff

NativeNext ==
    \/ SchedNext
    \/ AccelNext

NativeSpec == NativeSpecInit /\ [][NativeNext]_vars

\* the loading of one gallery page
LoadSpecInit == LoadInit /\ SchedInit /\ SplitOff /\ TileOff /\ AccelInit /\ CtlOff

LoadSpec == LoadSpecInit /\ [][LoadNext]_vars

\* display and export operations of the controller
CtlSpecInit == CtlInit /\ SchedInit /\ SplitOff /\ TileOff /\ AccelInit /\ LoadOff

CtlSpec == CtlSpecInit /\ [][CtlNext]_vars

\* the loading of gallery pages, with page changes and a change of directory
GalleryNext ==
    \/ LoadNext
    \/ LoadPageSkip
    \/ \E nb \in {0, 1} : LoadPageAgain(nb)
    \/ SetImages

GallerySpec == LoadSpecInit /\ [][GalleryNext]_vars

\* ------------------------------------------------------------------------
\* Properties of split and merge
\* ------------------------------------------------------------------------
\* C7: whenever a split has been asked for, split and merge run to the end
\* without raising and the merged image has the height, the width and every
\* pixel of the original.
MergeExact ==
    /\ sPc # "raised"
    /\ sPc = "merged" => sMerged = sImg


\* ------------------------------------------------------------------------
\* Properties of the interactive scheduler
\* ------------------------------------------------------------------------
\* a RunCompute task that is queued in the pool or executing the pipeline computation
InFlight(t) == task[t].pc \in {"queued", "started", "iter", "compute", "setOutput"}

\* nothing is left to run: the UI thread is outside requestCompute and every
\* dispatched task has returned from run() without raising
Quiescent ==
    /\ uiPc = "idle"
    /\ \A t \in TaskIds : task[t].pc \in {"none", "done"}

SetMax(S) == CHOOSE x \in S : \A y \in S : y <= x

\* the value requestDict[s] holds after the first n requestCompute calls
DictAfter(s, n) ==
    LET idx == {i \in 1..n : reqLog[i].id = s}
    IN  IF idx = {} THEN NoVal ELSE reqLog[SetMax(idx)].p

\* C1: at most one RunCompute task of the scheduler is queued or executing
\* the pipeline computation at any time.
AtMostOneInFlight == Cardinality({t \in TaskIds : InFlight(t)}) <= 1

\* C2: no lost update. Once the scheduler has settled, for every request that
\* found the scheduler busy (and set waitingUpdate) some completed run has
\* applied the latest value of the request's stage to the pipeline.
NoLostUpdate ==
    Quiescent =>
        \A i \in 1..Len(reqLog) :
            reqLog[i].busy > 0 =>
                \E t \in TaskIds :
                    /\ task[t].pc = "done"
                    /\ task[t].applied[reqLog[i].id] = requestDict[reqLog[i].id]

\* C3: last write wins. The pending set holds for each stage the value of the
\* most recent request; a task applies to a stage only a value the pending set
\* held at or after the task's dispatch (never a value overwritten before it),
\* and a task that has left its parameter loop has applied every stage that
\* was pending when it was dispatched.
LastWriteWins ==
    /\ \A s \in Stages : requestDict[s] = DictAfter(s, Len(reqLog))
    /\ \A t \in TaskIds : \A s \in Stages :
          task[t].applied[s] # NoVal =>
              \E n \in task[t].disp..Len(reqLog) : task[t].applied[s] = DictAfter(s, n)
    /\ \A t \in TaskIds : \A s \in Stages :
          (/\ task[t].pc \in {"compute", "setOutput", "release", "getImage",
                              "updateImage", "test", "clear", "done"}
           /\ DictAfter(s, task[t].disp) # NoVal)
          => task[t].applied[s] # NoVal

\* C3 witness: two requests with different values for one stage were both made
\* while a task was running, and a task dispatched after both has completed
\* having applied the second value.
LastWriteWinsWitness ==
    \E t \in TaskIds : \E i, j \in 1..Len(reqLog) :
        /\ i < j /\ j <= task[t].disp
        /\ reqLog[i].busy > 0 /\ reqLog[j].busy > 0
        /\ reqLog[i].id = reqLog[j].id /\ reqLog[i].p # reqLog[j].p
        /\ \A n \in 1..Len(reqLog) : n > j => reqLog[n].id # reqLog[j].id
        /\ task[t].pc = "done"
        /\ task[t].applied[reqLog[j].id] = reqLog[j].p

\* C4: the scheduler never settles with an unapplied or undisplayed update:
\* once settled, the pipeline holds the latest requested value of every
\* requested stage, its output was computed with them and that output is the
\* preview last delivered.
Converged ==
    Quiescent =>
        /\ \A s \in Stages : requestDict[s] # NoVal => ppParams[s] = requestDict[s]
        /\ ppOutput = ppParams
        /\ nbTasks > 0 => preview = ppOutput

\* exactly two requests were made, for the same stage with the same value
IdenticalTwice ==
    /\ Len(reqLog) = 2
    /\ reqLog[1].id = reqLog[2].id
    /\ reqLog[1].p = reqLog[2].p

E2EOne ==
    /\ (Len(reqLog) = 1 /\ uiPc = "idle") => nbTasks = 1
    /\ (Len(reqLog) = 1 /\ Quiescent) => nbPreview = 1
E2EThree ==
    (/\ Len(reqLog) = 3 /\ Quiescent
     /\ reqLog[2].busy = 1 /\ reqLog[3].busy = 1 /\ reqLog[2].id # reqLog[3].id)
    => /\ nbTasks = 2
       /\ nbPreview = 2
       /\ task[2].applied[reqLog[2].id] = reqLog[2].p
       /\ task[2].applied[reqLog[3].id] = reqLog[3].p
E2ECount == Quiescent => nbPreview = nbTasks
EndToEnd == E2EOne /\ E2EThree /\ E2ECount

\* C12: waitingUpdate is set only while a run is in progress: in every state,
\* waitingUpdate implies that readyToRun is False.
WaitingImpliesBusy == waitingUpdate => ~readyToRun

\* C14: setProcessPipe is refused whenever a RunCompute task is queued or
\* running, and no task calls setParameters, coreCcompute or setOutput on a
\* pipeline other than the one that was current when it was dispatched.
SwitchRefusedWhileBusy ==
    /\ lastSwitch.busy => ~lastSwitch.ok
    /\ \A t \in TaskIds : task[t].used \subseteq {task[t].dpipe}

\* C15: while a RunCompute task is between its start and its completion, the
\* UI thread (autoExposure, setProcessPipe) calls neither setParameters nor
\* compute on the pipeline being edited, and no other task is inside its
\* setParameters loop, its computation or its setOutput.
ExclusiveMutation ==
    /\ ~uiClash
    /\ \A t, u \in TaskIds :
          (t # u /\ Holding(t)) => task[u].pc \notin {"iter", "compute", "setOutput"}

\* C17: once a RunCompute task has raised, readyToRun stays False for ever, so
\* that every later requestCompute only stores its parameters and sets
\* waitingUpdate, and no task is dispatched any more.
StuckAfterFailure ==
    (\E t \in TaskIds : task[t].pc = "raised") => ~readyToRun

\* C19: the permit is taken at request time: when the first requestCompute,
\* made on an idle scheduler, has returned and its task has not started yet,
\* readyToRun is already False and exactly one task has been dispatched.
PermitAtRequest ==
    (Len(reqLog) = 1 /\ uiPc = "idle" /\ task[1].pc = "queued")
    => (~readyToRun /\ nbTasks = 1)

\* C20: the pending set is cleared on dispatch: when a request made on an idle
\* scheduler has returned with its task dispatched, the stage it carries is no
\* longer in requestDict; and a task other than the first applies only stages
\* requested since the dispatch of the task before it.
PendingCleared ==
    /\ (Len(reqLog) = 1 /\ uiPc = "idle" /\ nbTasks = 1)
       => \A s \in Stages : requestDict[s] = NoVal
    /\ \A t \in TaskIds : \A s \in Stages :
          (t > 1 /\ task[t].applied[s] # NoVal)
          => \E i \in (task[t - 1].disp + 1)..Len(reqLog) : reqLog[i].id = s

\* C21: a request that finds the scheduler busy dispatches nothing: the step
\* of requestCompute that tests readyToRun and finds it False sets
\* waitingUpdate and returns, leaving the tasks, their number and the
\* pipeline's parameters as they were; the parameters of the call are in
\* requestDict.
BusyRequestDispatchesNothing ==
    [][(uiPc = "stored" /\ uiPc' = "idle" /\ ~readyToRun)
       => /\ waitingUpdate'
          /\ nbTasks' = nbTasks
          /\ task' = task
          /\ ppParams' = ppParams
          /\ requestDict'[reqLog[Len(reqLog)].id] = reqLog[Len(reqLog)].p]_vars

\* C21 witness: a request made while a task was computing has returned with
\* waitingUpdate set and no task dispatched by it.
BusyRequestWitness ==
    /\ uiPc = "idle"
    /\ Len(reqLog) = 2
    /\ reqLog[2].busy = 1
    /\ task[1].pc = "compute"
    /\ waitingUpdate
    /\ nbTasks = 1
    /\ requestDict[reqLog[2].id] = reqLog[2].p

\* C22: waitingUpdate is cleared only by a fresh dispatch that covers the
\* requests which set it: as long as no task has been dispatched since a
\* request found the scheduler busy and set waitingUpdate, the flag is still
\* set (it is not erased by the clearing step of an earlier completion).
NoErasedFlag ==
    \A i \in 1..Len(reqLog) :
        (reqLog[i].busy > 0 /\ reqLog[i].busy = nbTasks) => waitingUpdate

\* a requestCompute call found the scheduler busy while task t was in progress
ArrivedDuring(t) == \E i \in 1..Len(reqLog) : t \in reqLog[i].during

\* C23: exactly one follow-up run per busy period: a task that has passed the
\* test of its completion handler has started a new task if and only if a
\* request arrived while it was in progress.
OneFollowUp ==
    \A t \in TaskIds :
        task[t].pc \in {"clear", "done"} => (task[t].follow # 0 <=> ArrivedDuring(t))

\* C24: the permit is released only in the completion handler, after the
\* preview was delivered: while a task is between the end of its computation
\* and the delivery of its preview, readyToRun is False.
PermitHeldUntilPreview ==
    \A t \in TaskIds : task[t].pc \in {"getImage", "updateImage"} => ~readyToRun

\* C25: parameters are applied from a stable set: no task fails in its
\* parameter loop because a request arrived, and a task that has started its
\* computation has applied every stage pending at its dispatch.
StableParameterSet ==
    /\ \A t \in TaskIds : task[t].err # "RuntimeError"
    /\ \A t \in TaskIds : \A s \in Stages :
          (/\ task[t].pc \in {"compute", "setOutput", "release"}
           /\ DictAfter(s, task[t].disp) # NoVal)
          => task[t].applied[s] # NoVal

\* ------------------------------------------------------------------------
\* Properties of the tiled engine
\* ------------------------------------------------------------------------
\* the constructor has submitted every tile and every tile task has returned
\* from run() without raising
TileFinished ==
    /\ ctorPc = "constructed"
    /\ \A k \in 1..nbSplits : worker[k].pc = "done"

\* C8: when the pipeline given to pCompute ended with a geometry stage, no
\* tile's pipeline copy contains it, and the geometry transform is computed at
\* most once in the run, on a merged image and before the callback, and
\* exactly once when every tile has finished.
GeometryOnce ==
    geometryNode =>
        /\ \A k \in WorkerIds : CountGeometry(worker[k].nodes) = 0
        /\ nbTileGeom = 0
        /\ nbGeom <= 1
        /\ nbGeom <= nbMerge
        /\ nbCallBack <= nbGeom
        /\ TileFinished => nbGeom = 1

\* C9: callBack is invoked at most once per pCompute, and exactly once when
\* every tile has finished.
CallBackOnce ==
    /\ nbCallBack <= 1
    /\ TileFinished => nbCallBack = 1

\* C10: merge is never called, and the callback never invoked, while a cell of
\* the grid still holds its unprocessed input: a tile task that has passed the
\* counter test finds every cell computed, and an image given to the callback
\* was merged from computed cells only.
MergeBarrier ==
    /\ \A k \in WorkerIds :
          worker[k].pc \in {"merge", "geometry", "callback"} => AllCellsOut
    /\ \A k \in WorkerIds :
          worker[k].pc \in {"geometry", "callback"} => worker[k].res.whole
    /\ nbCallBack > 0 => exported.whole /\ AllCellsOut

\* C10 witness: a grid of several tiles has been merged and given to the callback.
MergeBarrierWitness ==
    /\ nbSplits >= 2
    /\ nbMerge >= 1
    /\ nbCallBack >= 1
    /\ exported.whole

\* C11: pCompute never modifies the caller's pipeline: once pCompute(...) has
\* been called, during the run and after it, the stage list of the pipeline
\* the caller passed is the one it was at the call; a trailing geometry stage
\* is still its last stage.
CallerPipelineKept ==
    ctorPc # "new" =>
        /\ tNodes = tNodesIn
        /\ LastIsGeometry(tNodesIn) => LastIsGeometry(tNodes)

\* the constructor has submitted every tile and every tile task has left
\* run(), by returning or by raising
TileSettled ==
    /\ ctorPc = "constructed"
    /\ \A k \in 1..nbSplits : worker[k].pc \in {"done", "raised"}

\* C16: a failed tiled run is reported: when a tile task has raised and
\* nothing is left to run, the callback has been invoked (the engine has no
\* other signal to its caller).
FailureReported ==
    (TileSettled /\ \E k \in 1..nbSplits : worker[k].pc = "raised") => nbCallBack >= 1

\* the tile task of grid cell (line l, column c) has written its result
WroteCell(l, c) ==
    \E k \in WorkerIds :
        /\ worker[k].idx = <<c, l>>
        /\ worker[k].pc \notin {"none", "queued", "raised"}

\* C26: tile results are order-independent: each cell of the grid holds the
\* sub-image of its own position, it holds a computed tile exactly when the
\* task created for that cell has written its result, and so the grid given to
\* merge does not depend on the order in which the tiles complete.
TileOwnCell ==
    \A l \in 1..Len(splits) : \A c \in 1..Len(splits[l]) :
        /\ splits[l][c].img =
              TileCompute(tNodes, Split(TileInput, tNbWidth, tNbHeight)[l][c])
        /\ splits[l][c].out <=> WroteCell(l, c)

\* C26 witness: on a 2 x 2 grid the tiles complete out of submission order:
\* the last cell is written while the first is not, and the cell of line 2,
\* column 1 is written while the cell of line 1, column 2 is not.
TileOwnCellWitness ==
    /\ tNbWidth = 2 /\ tNbHeight = 2
    /\ ctorPc = "constructed"
    /\ splits[2][2].out /\ ~splits[1][1].out
    /\ splits[2][1].out /\ ~splits[1][2].out

\* C27: progress reporting: the k-th call of the progress callback reports
\* the integer part of 100*k/nbSplits, the reported values never decrease,
\* and when every tile has finished there was one call per tile and the last
\* one reported 100.
ProgressExact ==
    /\ progressExact
    /\ progressSorted
    /\ (tProgress /\ TileFinished) => (nbProgress = nbSplits /\ lastPercent = 100)

\* C28: degenerate grids work: for a grid of one column or of one row with
\* at least two tiles, split does not raise and returns nbHeight lines of
\* nbWidth images, the constructor submits one task per tile, the image given
\* to the callback has the dimensions of the input, and the callback is
\* invoked once every tile has finished.
DegenerateGridsWork ==
    ((tNbWidth = 1 \/ tNbHeight = 1) /\ tNbWidth * tNbHeight >= 2)
    => /\ ctorPc # "raised"
       /\ ctorPc \in {"submit", "constructed"} =>
             /\ Len(splits) = tNbHeight
             /\ \A l \in 1..Len(splits) : Len(splits[l]) = tNbWidth
       /\ ctorPc = "constructed" =>
             Cardinality({k \in WorkerIds : worker[k].pc # "none"}) = tNbWidth * tNbHeight
       /\ nbCallBack > 0 =>
             (exported.img.h = TileInput.h /\ exported.img.w = TileInput.w)
       /\ TileFinished => nbCallBack >= 1

\* C29: only a trailing geometry stage is deferred: when the last stage of
\* the pipeline given to pCompute is not a geometry stage, no stage is
\* detached, every tile's pipeline copy has the full stage list, and no
\* transform is applied to the merged image.
OnlyTrailingGeometry ==
    (ctorPc \notin {"off", "new"} /\ tNodesIn[Len(tNodesIn)] # "geometry")
    => /\ ~geometryNode
       /\ tNodes = tNodesIn
       /\ \A k \in WorkerIds : worker[k].pc # "none" => worker[k].nodes = tNodesIn
       /\ nbGeom = 0
       /\ \A k \in WorkerIds : worker[k].res.geom = 0
       /\ exported.geom = 0

\* C29 witness: a pipeline with a geometry stage that is not the last one was
\* run on several tiles, each of which computed the geometry stage, and the
\* merged image was given to the callback.
OnlyTrailingGeometryWitness ==
    /\ tNodesIn = <<"geometry", "exposure">>
    /\ nbSplits >= 2
    /\ nbTileGeom = nbSplits
    /\ nbCallBack >= 1

\* C30: each tile task owns its pipeline: the pipeline objects of the tile
\* tasks are pairwise distinct and none is the caller's object; a submitted
\* task's pipeline has the geometry-stripped stage list and the sub-image of
\* the task's own cell as its input.
OwnPipeline ==
    /\ \A k \in WorkerIds : worker[k].pc # "none" => worker[k].pp # CallerPipe
    /\ \A k, k2 \in WorkerIds :
          (k # k2 /\ worker[k].pc # "none" /\ worker[k2].pc # "none")
          => worker[k].pp # worker[k2].pp
    /\ \A k \in WorkerIds :
          worker[k].pc = "queued" =>
              /\ worker[k].nodes = tNodes
              /\ ~(geometryNode /\ worker[k].nodes = tNodesIn)
              /\ worker[k].input =
                    Split(TileInput, tNbWidth, tNbHeight)[worker[k].idx[2]][worker[k].idx[1]]

\* C30 witness: the constructor has submitted three tiles of a pipeline whose
\* geometry stage was detached, each queued with its own pipeline object and
\* its own sub-image.
OwnPipelineWitness ==
    /\ geometryNode
    /\ nbSplits = 3
    /\ ctorPc = "constructed"
    /\ \A k \in 1..3 : worker[k].pc = "queued"
    /\ Cardinality({worker[k].pp : k \in 1..3}) = 3
    /\ Cardinality({worker[k].input : k \in 1..3}) = 3

\* ------------------------------------------------------------------------
\* Properties of the accelerated engine
\* ------------------------------------------------------------------------
\* C13: each cCompute construction submits exactly one cRun task; callBack is
\* not invoked before the native computation has returned and the output was
\* read back, and is invoked exactly once when the task has finished, with
\* the output image of the pipeline; no merge is made and the scheduler's
\* readyToRun, waitingUpdate and requestDict are left as they were.
SingleShot ==
    /\ \A j \in AccelIds :
          /\ cTask[j].starts = (IF j <= nbCCompute THEN 1 ELSE 0)
          /\ cTask[j].calls <= 1
          /\ cTask[j].pc # "done" => cTask[j].calls = 0
          /\ cTask[j].pc = "done" =>
                /\ cTask[j].calls = 1
                /\ cTask[j].out = cTask[j].params
                /\ cTask[j].delivered = cTask[j].out
    /\ nbMerge = 0
    /\ readyToRun /\ ~waitingUpdate
    /\ \A s \in Stages : requestDict[s] = NoVal

\* C13 witness: two cCompute were constructed with different pipelines and
\* each has given its own output to its callback.
SingleShotWitness ==
    /\ nbCCompute = 2
    /\ cTask[1].pc = "done" /\ cTask[2].pc = "done"
    /\ cTask[1].params # cTask[2].params
    /\ cTask[1].delivered = cTask[1].params
    /\ cTask[2].delivered = cTask[2].params

\* ------------------------------------------------------------------------
\* Properties of the image loader
\* ------------------------------------------------------------------------
\* the index a load task is for
LoadKey(k) == loadTask[k].idx0 + loadTask[k].idx

\* a load of index i has succeeded
Loaded(i) == \E k \in LoadIds : loadTask[k].pc \in {"store", "done"} /\ LoadKey(k) = i

\* a load of index i is queued, or has failed and is about to be re-submitted
LoadPending(i) == \E k \in LoadIds : loadTask[k].pc \in {"queued", "endErr"} /\ LoadKey(k) = i

\* C18: a load that failed with IOError or ValueError is re-submitted for the
\* same index and filename; requestsDone[index] is False until a load of the
\* index succeeds and True from then on, and the pipeline stored at the index
\* is the one loaded from its file; for a file whose load always fails a load
\* is always pending and requestsDone[index] stays False.
LoadRetries ==
    /\ \A k \in LoadIds :
          loadTask[k].pc = "failed" =>
              \E k2 \in LoadIds :
                  /\ k2 > k /\ loadTask[k2].pc # "none"
                  /\ loadTask[k2].idx0 = loadTask[k].idx0
                  /\ loadTask[k2].idx = loadTask[k].idx
                  /\ loadTask[k2].filename = loadTask[k].filename
    /\ \A i \in DOMAIN requestsDone : requestsDone[i] <=> Loaded(i)
    /\ \A i \in DOMAIN processPipes :
          processPipes[i] # NoPipe =>
              /\ i \in DOMAIN requestsDone /\ requestsDone[i]
              /\ processPipes[i] = ImageFilename(i)
    /\ \A k \in LoadIds :
          loadTask[k].pc = "done" => processPipes[LoadKey(k)] = loadTask[k].filename
    /\ \A j \in PageIdx :
          (j < lpNext /\ fileKind[j] = "bad") =>
              /\ ~requestsDone[pageNb * MaxPage + j]
              /\ LoadPending(pageNb * MaxPage + j)

\* C18 witness: the load of a file that always fails has been re-submitted
\* twice and is pending again, and another image was loaded and stored after
\* a failed attempt.
LoadRetriesWitness ==
    \E i, j \in DOMAIN requestsDone :
        /\ i # j
        /\ fileKind[i - pageNb * MaxPage] = "bad"
        /\ Cardinality({k \in LoadIds : loadTask[k].pc = "failed" /\ LoadKey(k) = i}) >= 2
        /\ LoadPending(i)
        /\ \E k \in LoadIds : loadTask[k].pc = "failed" /\ LoadKey(k) = j
        /\ requestsDone[j] /\ processPipes[j] = ImageFilename(j)

\* C31: the accelerated run leaves the pipeline's input image as it was: the
\* native computation works on a copy, and once the task has completed the
\* input still holds the pixels it had and the output holds the native
\* result.
InputKept ==
    \A j \in AccelIds :
        /\ cTask[j].input = RawImage
        /\ cTask[j].pc \in {"output", "image", "done"} =>
              /\ cTask[j].out = cTask[j].params
              /\ cTask[j].out # cTask[j].input
        /\ cTask[j].pc \in {"none", "queued", "copied", "computed", "raised"} =>
              cTask[j].out = NoVal

\* C31 witness: a cRun task has completed; the native result was written
\* into the copy and the input still holds the raw pixels.
InputKeptWitness ==
    \E j \in AccelIds :
        /\ cTask[j].pc = "done"
        /\ cTask[j].img = "copy"
        /\ cTask[j].work = cTask[j].params
        /\ cTask[j].work # RawImage
        /\ cTask[j].input = RawImage
        /\ cTask[j].out = cTask[j].params

\* C32: when the native computation raises, the cRun task ends there: its
\* callBack is never invoked, the output of its pipeline is not replaced,
\* nothing was submitted besides the one cRun and no tiled computation is
\* started. A RunCompute task whose native call raises ends there as well:
\* it computed no image, started no task, and when it is the only task the
\* output of the pipeline and the preview are the ones from before.
NoFallback ==
    /\ \A j \in AccelIds :
          cTask[j].pc = "raised" =>
              /\ cTask[j].calls = 0
              /\ cTask[j].delivered = NoVal
              /\ cTask[j].out = NoVal
              /\ cTask[j].starts = 1
    /\ nbMerge = 0 /\ ctorPc = "off" /\ nbSplits = 0
    /\ \A t \in TaskIds :
          task[t].err = "compute" =>
              /\ task[t].pc = "raised"
              /\ task[t].loc = NoTask.loc
              /\ task[t].follow = 0
              /\ nbTasks = 1 =>
                    /\ ppOutput = [s \in Stages |-> NoVal]
                    /\ nbPreview = 0

\* C32 witness: a cRun task and a RunCompute task have both ended with the
\* error of the native call.
NoFallbackWitness ==
    /\ \E j \in AccelIds : cTask[j].pc = "raised" /\ cTask[j].img = "copy"
    /\ \E t \in TaskIds : task[t].err = "compute" /\ task[t].applied # NoTask.applied

\* ------------------------------------------------------------------------
\* Properties of the scheduler: failed runs, previews, pipeline switches
\* ------------------------------------------------------------------------
\* C33: a RunCompute task that fails delivers no preview and starts no task:
\* every preview delivered so far belongs to a task that went through
\* endCompute, and a failed task that is the only one leaves the preview as
\* it was; and once a task has failed, every stage requested before or during
\* it is still in requestDict with the value last requested for it.
FailedRunKeepsEdits ==
    /\ nbPreview = Cardinality({t \in TaskIds : task[t].pc \in {"test", "clear", "done"}})
    /\ \A t \in TaskIds :
          task[t].err # "none" =>
              /\ task[t].pc = "raised"
              /\ task[t].follow = 0
              /\ nbTasks = 1 => (nbPreview = 0 /\ preview = [s \in Stages |-> NoVal])
              /\ \A i \in 1..Len(reqLog) :
                    /\ requestDict[reqLog[i].id] # NoVal
                    /\ requestDict[reqLog[i].id] = DictAfter(reqLog[i].id, Len(reqLog))

\* C33 witness: a first task has delivered its preview, a second task has
\* failed in the native call, a request was made while it was running, and
\* the preview is still the first task's while the request is in requestDict.
FailedRunKeepsEditsWitness ==
    \E t, u \in TaskIds : \E i \in 1..Len(reqLog) :
        /\ task[u].pc = "done" /\ u < t
        /\ task[t].err = "compute"
        /\ t \in reqLog[i].during
        /\ i = Len(reqLog) /\ uiPc = "idle"
        /\ requestDict[reqLog[i].id] = reqLog[i].p
        /\ nbPreview = 1
        /\ preview # [s \in Stages |-> NoVal]

\* C34: the preview of a run is that run's output: from the moment a task
\* has stored its output until its endCompute has read the preview image,
\* the output of the shared pipeline is the image that task computed and no
\* other task is applying parameters to the pipeline or computing with it.
PreviewIsOwnOutput ==
    \A t \in TaskIds :
        task[t].pc = "getImage" =>
            /\ ppOutput = task[t].loc
            /\ \A u \in TaskIds :
                  u # t => task[u].pc \notin {"iter", "compute", "setOutput", "release"}

\* C35: no parameter leaks across a pipeline switch: a task that was
\* dispatched with the pipeline q installed and has worked on q alone has
\* applied to it only stages that some requestCompute call asked for while
\* q was the installed pipeline.
NoParameterLeak ==
    \A t \in TaskIds : \A s \in Stages :
        (/\ task[t].applied[s] # NoVal
         /\ task[t].used = {task[t].dpipe})
        => \E i \in 1..Len(reqLog) :
               reqLog[i].id = s /\ reqLog[i].pipe = task[t].dpipe

\* ------------------------------------------------------------------------
\* Properties of the controller's display and export operations
\* ------------------------------------------------------------------------
\* a computation of the controller that was started and has not returned from
\* the native computation
XInFlight(j) == xTask[j].pc = "queued"

\* a batch computation that was started and whose callback has not ended
XBatchActive(j) ==
    xTask[j].cb = "batch" /\ xTask[j].pc \notin {"none", "done", "raised"}

\* C36: batch export is a sequential chain: at most one computation of the
\* batch is active, imageExportDone stays between 0 and the number of
\* pipelines to export, every computation is for an index below that number,
\* and a computation started by a callback is for the index after the one
\* the callback belongs to.
BatchChain ==
    /\ Cardinality({j \in OpIds : XBatchActive(j)}) <= 1
    /\ imageExportDone \in 0..imageToExport
    /\ \A j \in OpIds :
          xTask[j].cb = "batch" =>
              /\ xTask[j].idx < imageToExport
              /\ xTask[j].from # 0 => xTask[j].idx = xTask[xTask[j].from].idx + 1

\* C37: autoResize stays off during a full-size computation: while a display
\* or export computation of the controller is in flight, the flag
\* ProcessPipe.autoResize is False.
AutoResizeOff ==
    (\E j \in OpIds : XInFlight(j)) => ~autoResize

\* ------------------------------------------------------------------------
\* Properties of the gallery
\* ------------------------------------------------------------------------
\* C38: load results stay consistent with the file list: the pipeline stored
\* at an index of processPipes is the pipeline of the file imageFilenames
\* holds at that index.
StoredMatchesFileList ==
    \A i \in DOMAIN processPipes :
        processPipes[i] # NoPipe => processPipes[i] = imageFilenames[i]

====
